---- MODULE Spec2Model ----
(***************************************************************************)
(* A model of the match engine of match-room-demo (src/main.go): the       *)
(* segment classifier, the component scorers, the eligibility filter, the  *)
(* two matchers and the batch matcher.                                     *)
(*                                                                         *)
(* Go's fixed-width integers are kept: uint8 and uint16 arithmetic wraps,  *)
(* int16 results are reduced to 16 bits.  A *Entity that points into the   *)
(* pool is modelled by the position of the entity in the pool (0 is nil).  *)
(***************************************************************************)
EXTENDS Integers, Sequences, FiniteSets, TLC

VARIABLES
    call,           \* the last call of a scorer or of the filter: its arguments and result
    config,         \* *MatchConfig handed to the matchers
    now,            \* time.Now().Unix()
    pool,           \* []*Entity, the shared candidate pool
    current,        \* the seeker of a single match
    currentUserID,  \* the seeker's user identifier of a single match
    dret,           \* what matchEntityDetailed returned
    mret,           \* what matchEntity returned
    rooms,          \* batchMatchEntities: the seekers (a nil entry is NilEntity)
    userIDs,        \* batchMatchEntities: the identifiers
    bpc,            \* batchMatchEntities: position of the call
    bi,             \* batchMatchEntities: loop index (1-based)
    results,        \* batchMatchEntities: the map being built, key -> pool position
    bcalls          \* batchMatchEntities: the matchEntity calls made so far

vars == <<call, config, now, pool, current, currentUserID, dret, mret,
          rooms, userIDs, bpc, bi, results, bcalls>>

----------------------------------------------------------------------------
(* Bounds of the model *)

MaxPool == 2
MaxRooms == 2
MaxTime == 600

----------------------------------------------------------------------------
(* Fixed-width arithmetic *)

ToU16(x) == x % 65536

ToU8(x) == x % 256

ToI16(x) ==
    LET m == x % 65536
    IN  IF m >= 32768 THEN m - 65536 ELSE m

----------------------------------------------------------------------------
(* Data *)

Entity(id, lastMatched, blacklist, mic, audience, wait, history, activity) ==
    [ID |-> id, LastMatchedUsers |-> lastMatched, Blacklist |-> blacklist,
     MicCount |-> mic, AudienceCount |-> audience, WaitSeconds |-> wait,
     MatchHistory |-> history, ActivityLevel |-> activity]

DefaultMatchConfig ==
    [RecentMatchCooldown |-> 600, MaxWaitTime |-> 300, MinWaitTime |-> 20]

micSegmentMap == <<0, 1, 1, 1, 2, 2, 2, 3, 3, 3, 3, 3, 3, 3, 3, 3>>

audienceDiffScores == <<5, 4, 3, 2, 1, 0>>

activityScores == <<0, 2, 3>>

----------------------------------------------------------------------------
(* SegmentClassifier and ComponentScorers *)

getMicSegment(micCount) ==
    IF micCount = 0 THEN 0
    ELSE IF micCount < Len(micSegmentMap) THEN micSegmentMap[micCount + 1]
    ELSE 3

scoreWaitTime(seconds, cfg) ==
    IF seconds <= ToU16(cfg.MinWaitTime) THEN 0
    ELSE IF seconds <= 60
         THEN ToI16(ToU16(seconds - ToU16(cfg.MinWaitTime)) \div 10)
    ELSE ToI16(4 + ToI16(ToU16((ToU16(seconds - 60) \div 10) * 2)))

\* diff := currentSeg - candidateSeg; if diff < 0 { diff = -diff }, on uint8
SegmentDiff(currentSeg, candidateSeg) ==
    LET diff == ToU8(currentSeg - candidateSeg)
    IN  IF diff < 0 THEN ToU8(0 - diff) ELSE diff

scoreMicSegment(currentSeg, candidateSeg, waitTime) ==
    IF currentSeg = candidateSeg THEN 10
    ELSE LET diff == SegmentDiff(currentSeg, candidateSeg)
         IN  IF diff = 1 /\ waitTime >= 60 THEN 3
             ELSE IF waitTime >= 60 THEN 0
             ELSE -999

scoreAudienceDiff(d) ==
    LET diff == IF d < 0 THEN 0 - d ELSE d
    IN  IF diff < Len(audienceDiffScores) THEN audienceDiffScores[diff + 1] ELSE 0

scoreMatchHistory(history) ==
    IF history >= 10 THEN 4
    ELSE IF history >= 5 THEN 2
    ELSE 0

scoreActivity(level) ==
    IF level < Len(activityScores) THEN activityScores[level + 1] ELSE 0

----------------------------------------------------------------------------
(* EligibilityFilter.  A reason is [kind, args]: the format string used and *)
(* the values formatted into it.                                            *)

Reason(kind, args) == [kind |-> kind, args |-> args]

NoReason == Reason("", <<>>)

\* the cooldown test with "<=" for "<"
quickReject_Inclusive(cur, candidate, userID, cfg, currentTime) ==
    IF userID \in candidate.Blacklist
    THEN [rejected |-> TRUE, reason |-> Reason("blacklist", <<>>)]
    ELSE IF /\ userID \in DOMAIN candidate.LastMatchedUsers
            /\ currentTime - candidate.LastMatchedUsers[userID] <= cfg.RecentMatchCooldown
    THEN [rejected |-> TRUE,
          reason |-> Reason("cooldown", <<currentTime - candidate.LastMatchedUsers[userID]>>)]
    ELSE IF /\ candidate.WaitSeconds < 60
            /\ SegmentDiff(getMicSegment(cur.MicCount), getMicSegment(candidate.MicCount)) > 1
    THEN [rejected |-> TRUE,
          reason |-> Reason("segment-gap", <<getMicSegment(cur.MicCount),
                                             getMicSegment(candidate.MicCount)>>)]
    ELSE [rejected |-> FALSE, reason |-> NoReason]

quickReject(cur, candidate, userID, cfg, currentTime) ==
    IF userID \in candidate.Blacklist
    THEN [rejected |-> TRUE, reason |-> Reason("blacklist", <<>>)]
    ELSE IF /\ userID \in DOMAIN candidate.LastMatchedUsers
            /\ currentTime - candidate.LastMatchedUsers[userID] < cfg.RecentMatchCooldown
    THEN [rejected |-> TRUE,
          reason |-> Reason("cooldown", <<currentTime - candidate.LastMatchedUsers[userID]>>)]
    ELSE IF /\ candidate.WaitSeconds < 60
            /\ SegmentDiff(getMicSegment(cur.MicCount), getMicSegment(candidate.MicCount)) > 1
    THEN [rejected |-> TRUE,
          reason |-> Reason("segment-gap", <<getMicSegment(cur.MicCount),
                                             getMicSegment(candidate.MicCount)>>)]
    ELSE [rejected |-> FALSE, reason |-> NoReason]

----------------------------------------------------------------------------
(* Scoring of one (seeker, candidate) pair *)

\* &MatchDetail{Entity, CurrentSegment, CandidateSegment}: the other fields are zero
NewDetail(candidate, currentSeg) ==
    [Entity |-> candidate, Score |-> 0, WaitScore |-> 0, SegmentScore |-> 0,
     AudienceScore |-> 0, HistoryScore |-> 0, ActivityScore |-> 0,
     CurrentSegment |-> currentSeg,
     CandidateSegment |-> getMicSegment(candidate.MicCount),
     Rejected |-> FALSE, RejectReason |-> NoReason]

\* the filter's rejection forgets detail.Score = -999
scoreMatchDetailed_NoSentinel(cur, candidate, userID, cfg, currentTime, currentSeg) ==
    LET detail == NewDetail(candidate, currentSeg)
        quick  == quickReject(cur, candidate, userID, cfg, currentTime)
        wait   == scoreWaitTime(candidate.WaitSeconds, cfg)
        seg    == scoreMicSegment(currentSeg, detail.CandidateSegment, candidate.WaitSeconds)
        aud    == scoreAudienceDiff(cur.AudienceCount - candidate.AudienceCount)
        hist   == scoreMatchHistory(candidate.MatchHistory)
        act    == scoreActivity(candidate.ActivityLevel)
    IN  IF quick.rejected
        THEN [detail EXCEPT !.Rejected = TRUE, !.RejectReason = quick.reason]
        ELSE IF seg < 0
        THEN [detail EXCEPT !.WaitScore = wait, !.SegmentScore = seg, !.Rejected = TRUE,
                            !.RejectReason = Reason("segment-mismatch", <<>>),
                            !.Score = -999]
        ELSE [detail EXCEPT !.WaitScore = wait, !.SegmentScore = seg,
                            !.AudienceScore = aud, !.HistoryScore = hist,
                            !.ActivityScore = act,
                            !.Score = ToI16(wait + seg + aud + hist + act)]

\* the scorer's rejection (SegmentScore < 0) returns without setting Rejected
scoreMatchDetailed_NoFlag(cur, candidate, userID, cfg, currentTime, currentSeg) ==
    LET detail == NewDetail(candidate, currentSeg)
        quick  == quickReject(cur, candidate, userID, cfg, currentTime)
        wait   == scoreWaitTime(candidate.WaitSeconds, cfg)
        seg    == scoreMicSegment(currentSeg, detail.CandidateSegment, candidate.WaitSeconds)
        aud    == scoreAudienceDiff(cur.AudienceCount - candidate.AudienceCount)
        hist   == scoreMatchHistory(candidate.MatchHistory)
        act    == scoreActivity(candidate.ActivityLevel)
    IN  IF quick.rejected
        THEN [detail EXCEPT !.Rejected = TRUE, !.RejectReason = quick.reason,
                            !.Score = -999]
        ELSE IF seg < 0
        THEN [detail EXCEPT !.WaitScore = wait, !.SegmentScore = seg,
                            !.RejectReason = Reason("segment-mismatch", <<>>),
                            !.Score = -999]
        ELSE [detail EXCEPT !.WaitScore = wait, !.SegmentScore = seg,
                            !.AudienceScore = aud, !.HistoryScore = hist,
                            !.ActivityScore = act,
                            !.Score = ToI16(wait + seg + aud + hist + act)]

scoreMatchDetailed(cur, candidate, userID, cfg, currentTime, currentSeg) ==
    LET detail == NewDetail(candidate, currentSeg)
        quick  == quickReject(cur, candidate, userID, cfg, currentTime)
        wait   == scoreWaitTime(candidate.WaitSeconds, cfg)
        seg    == scoreMicSegment(currentSeg, detail.CandidateSegment, candidate.WaitSeconds)
        aud    == scoreAudienceDiff(cur.AudienceCount - candidate.AudienceCount)
        hist   == scoreMatchHistory(candidate.MatchHistory)
        act    == scoreActivity(candidate.ActivityLevel)
    IN  IF quick.rejected
        THEN [detail EXCEPT !.Rejected = TRUE, !.RejectReason = quick.reason,
                            !.Score = -999]
        ELSE IF seg < 0
        THEN [detail EXCEPT !.WaitScore = wait, !.SegmentScore = seg, !.Rejected = TRUE,
                            !.RejectReason = Reason("segment-mismatch", <<>>),
                            !.Score = -999]
        ELSE [detail EXCEPT !.WaitScore = wait, !.SegmentScore = seg,
                            !.AudienceScore = aud, !.HistoryScore = hist,
                            !.ActivityScore = act,
                            !.Score = ToI16(wait + seg + aud + hist + act)]

scoreMatch(cur, candidate, userID, cfg, currentTime, currentSeg) ==
    scoreMatchDetailed(cur, candidate, userID, cfg, currentTime, currentSeg).Score

----------------------------------------------------------------------------
(* Matcher: matchEntityDetailed *)

\* first loop: one detail per pool entry, in pool order
ScoreAllDetailed(cur, pl, userID, cfg, currentTime) ==
    [i \in 1..Len(pl) |->
        scoreMatchDetailed(cur, pl[i], userID, cfg, currentTime,
                           getMicSegment(cur.MicCount))]

RECURSIVE MaxScoreLoop(_, _, _)
MaxScoreLoop(details, i, maxScore) ==
    IF i > Len(details) THEN maxScore
    ELSE MaxScoreLoop(details, i + 1,
                      IF ~details[i].Rejected /\ details[i].Score > maxScore
                      THEN details[i].Score ELSE maxScore)

DetailedMaxScore(details) == MaxScoreLoop(details, 1, -1000)

\* "maxScore <= 0" for "maxScore < 0"
NoValidMatch_Mut(maxScore) == maxScore <= 0

NoValidMatch(maxScore) == maxScore < 0

RECURSIVE CollectLoop(_, _, _, _)
CollectLoop(details, i, maxScore, candidates) ==
    IF i > Len(details) THEN candidates
    ELSE CollectLoop(details, i + 1, maxScore,
                     IF ~details[i].Rejected /\ details[i].Score = maxScore
                     THEN Append(candidates, i) ELSE candidates)

\* the second loop collects every non-rejected candidate, whatever its score
DetailedCandidates_Mut(details, maxScore) ==
    SelectSeq([i \in 1..Len(details) |-> i], LAMBDA i : ~details[i].Rejected)

DetailedCandidates(details, maxScore) == CollectLoop(details, 1, maxScore, <<>>)

NoMatch(details) == [selected |-> 0, details |-> details]

\* The set of (selected, details) the call can return: one per value of rand.Intn.
matchEntityDetailed(cur, pl, userID, cfg, currentTime) ==
    IF Len(pl) = 0 THEN {NoMatch(<<>>)}
    ELSE LET details  == ScoreAllDetailed(cur, pl, userID, cfg, currentTime)
             maxScore == DetailedMaxScore(details)
             candidates == DetailedCandidates(details, maxScore)
         IN  IF NoValidMatch(maxScore) THEN {NoMatch(details)}
             ELSE IF Len(candidates) = 0 THEN {NoMatch(details)}
             ELSE {[selected |-> candidates[n + 1], details |-> details] :
                      n \in 0..(Len(candidates) - 1)}

----------------------------------------------------------------------------
(* Matcher: matchEntity, on raw scores *)

ScoreAll(cur, pl, userID, cfg, currentTime) ==
    [i \in 1..Len(pl) |->
        scoreMatch(cur, pl[i], userID, cfg, currentTime, getMicSegment(cur.MicCount))]

RECURSIVE RawMaxLoop(_, _, _)
RawMaxLoop(scores, i, maxScore) ==
    IF i > Len(scores) THEN maxScore
    ELSE RawMaxLoop(scores, i + 1, IF scores[i] > maxScore THEN scores[i] ELSE maxScore)

RECURSIVE RawCollectLoop(_, _, _, _)
RawCollectLoop(scores, i, maxScore, res) ==
    IF i > Len(scores) THEN res
    ELSE RawCollectLoop(scores, i + 1, maxScore,
                        IF scores[i] = maxScore
                        THEN Append(res, [Room |-> i, Score |-> scores[i]]) ELSE res)

\* The set of pool positions the call can return (0 is nil).
matchEntity(cur, pl, userID, cfg, currentTime) ==
    IF Len(pl) = 0 THEN {0}
    ELSE LET scores   == ScoreAll(cur, pl, userID, cfg, currentTime)
             maxScore == RawMaxLoop(scores, 1, -1000)
             res      == RawCollectLoop(scores, 1, maxScore, <<>>)
         IN  IF maxScore < 0 THEN {0}
             ELSE IF Len(res) = 0 THEN {0}
             ELSE {res[n + 1].Room : n \in 0..(Len(res) - 1)}

----------------------------------------------------------------------------
(* The inputs the operations are applied to *)

UserIDSet == {"u1", "u2"}

NoUsers == [u \in {} |-> 0]

\* the clock runs from one second before a cooldown that started at 0 ends
Times == (DefaultMatchConfig.RecentMatchCooldown - 1)..MaxTime

Configs ==
    {DefaultMatchConfig,
     [DefaultMatchConfig EXCEPT !.MinWaitTime = 0],
     [DefaultMatchConfig EXCEPT !.MinWaitTime = 60]}

MicCounts == {0, 3, 4, 7, 16}

Segments == {getMicSegment(c) : c \in MicCounts}

WaitSamples == (0..130) \cup {65534, 65535}

Seekers == {Entity("cur", NoUsers, {}, mic, 50, 80, 0, 0) : mic \in MicCounts}

ScoreCandidates ==
    {Entity("cand", lm, bl, mic, aud, wait, hist, act) :
        lm \in {NoUsers, "u1" :> 0, "u1" :> 1}, bl \in {{}, {"u1"}},
        mic \in MicCounts, aud \in {50, 53}, wait \in {10, 59, 60, 61, 65535},
        hist \in {0, 5, 10}, act \in {0, 2}}

\* <<MicCount, WaitSeconds, AudienceCount, MatchHistory, ActivityLevel>>
Profiles ==
    {<<3, 80, 50, 0, 0>>, <<4, 10, 50, 10, 2>>, <<7, 60, 60, 0, 0>>,
     <<0, 10, 48, 0, 0>>, <<3, 65535, 53, 5, 1>>}

PoolEntities ==
    {Entity("room", NoUsers, {}, p[1], p[3], p[2], p[4], p[5]) : p \in Profiles}
    \cup {Entity("room", "u1" :> 0, {}, p[1], p[3], p[2], p[4], p[5]) : p \in Profiles}
    \cup {Entity("room", NoUsers, {"u1"}, 3, 50, 80, 0, 0)}

Pools == UNION {[1..n -> PoolEntities] : n \in 0..MaxPool}

MatchSeekers == {s \in Seekers : s.MicCount \in {3, 4}}

NotCalled == [called |-> FALSE]

EmptyMap == [k \in {} |-> 0]

NilEntity == [ID |-> "", nil |-> TRUE]

----------------------------------------------------------------------------
(* SpecScore: one call of a scorer or of the filter.  Init draws the call's *)
(* arguments, the action of the function called computes its result.        *)

Pending(fn, args) == [fn |-> fn, args |-> args, done |-> FALSE]

PairArgs ==
    [current : Seekers, candidate : ScoreCandidates, currentUserID : UserIDSet,
     config : Configs]

InitScore ==
    /\ \/ \E c \in 0..20 : call = Pending("getMicSegment", [micCount |-> c])
       \/ \E a \in [seconds : WaitSamples, config : Configs] :
             call = Pending("scoreWaitTime", a)
       \/ \E a \in [currentSeg : Segments, candidateSeg : Segments,
                    waitTime : WaitSamples] :
             call = Pending("scoreMicSegment", a)
       \/ \E a \in PairArgs : call = Pending("quickReject", a)
       \/ \E a \in PairArgs : call = Pending("scoreMatchDetailed", a)
    /\ config = DefaultMatchConfig
    /\ now \in Times
    /\ pool = <<>>
    /\ current = NilEntity
    /\ currentUserID = ""
    /\ dret = NotCalled
    /\ mret = NotCalled
    /\ rooms = <<>>
    /\ userIDs = <<>>
    /\ bpc = "idle"
    /\ bi = 0
    /\ results = EmptyMap
    /\ bcalls = <<>>

Return(ret) ==
    /\ call' = [fn |-> call.fn, args |-> call.args, done |-> TRUE, ret |-> ret]
    /\ UNCHANGED <<config, now, pool, current, currentUserID, dret, mret,
                   rooms, userIDs, bpc, bi, results, bcalls>>

CallGetMicSegment ==
    /\ call.fn = "getMicSegment" /\ ~call.done
    /\ Return(getMicSegment(call.args.micCount))

CallScoreWaitTime ==
    /\ call.fn = "scoreWaitTime" /\ ~call.done
    /\ Return(scoreWaitTime(call.args.seconds, call.args.config))

CallScoreMicSegment ==
    /\ call.fn = "scoreMicSegment" /\ ~call.done
    /\ Return(scoreMicSegment(call.args.currentSeg, call.args.candidateSeg,
                              call.args.waitTime))

CallQuickReject ==
    /\ call.fn = "quickReject" /\ ~call.done
    /\ Return(quickReject(call.args.current, call.args.candidate,
                          call.args.currentUserID, call.args.config, now))

CallScoreMatchDetailed ==
    /\ call.fn = "scoreMatchDetailed" /\ ~call.done
    /\ Return(scoreMatchDetailed(call.args.current, call.args.candidate,
                                 call.args.currentUserID, call.args.config, now,
                                 getMicSegment(call.args.current.MicCount)))

NextScore ==
    \/ CallGetMicSegment
    \/ CallScoreWaitTime
    \/ CallScoreMicSegment
    \/ CallQuickReject
    \/ CallScoreMatchDetailed

SpecScore == InitScore /\ [][NextScore]_vars

----------------------------------------------------------------------------
(* SpecMatch: both matchers applied to one drawn (seeker, pool, identifier, *)
(* configuration) at one current time                                       *)

InitMatch ==
    /\ call = Pending("none", <<>>)
    /\ config \in {DefaultMatchConfig, [DefaultMatchConfig EXCEPT !.MinWaitTime = 60]}
    /\ now \in Times
    /\ pool \in Pools
    /\ current \in MatchSeekers
    /\ currentUserID \in UserIDSet
    /\ dret = NotCalled
    /\ mret = NotCalled
    /\ rooms = <<>>
    /\ userIDs = <<>>
    /\ bpc = "idle"
    /\ bi = 0
    /\ results = EmptyMap
    /\ bcalls = <<>>

MatchEntityDetailed ==
    /\ \E r \in matchEntityDetailed(current, pool, currentUserID, config, now) :
          dret' = [called |-> TRUE, selected |-> r.selected, details |-> r.details]
    /\ UNCHANGED <<call, config, now, pool, current, currentUserID, mret,
                   rooms, userIDs, bpc, bi, results, bcalls>>

MatchEntity ==
    /\ \E r \in matchEntity(current, pool, currentUserID, config, now) :
          mret' = [called |-> TRUE, selected |-> r]
    /\ UNCHANGED <<call, config, now, pool, current, currentUserID, dret,
                   rooms, userIDs, bpc, bi, results, bcalls>>

NextMatch ==
    \/ MatchEntityDetailed
    \/ MatchEntity

SpecMatch == InitMatch /\ [][NextMatch]_vars

----------------------------------------------------------------------------
(* SpecBatch: batchMatchEntities, one loop iteration per step, while the    *)
(* clock runs                                                               *)

BatchSeekers ==
    {Entity("r1", NoUsers, {}, 3, 50, 80, 0, 0),
     Entity("r1", NoUsers, {}, 4, 50, 80, 0, 0),
     Entity("r2", NoUsers, {}, 4, 50, 80, 0, 0)}

BatchPoolEntities ==
    {Entity("room", NoUsers, {"u1"}, 3, 50, 80, 0, 0),
     Entity("room", "u1" :> 0, {}, 4, 50, 10, 10, 2)}

BatchPools == UNION {[1..n -> BatchPoolEntities] : n \in 0..MaxPool}

IsNil(room) == "nil" \in DOMAIN room

InitBatch ==
    /\ call = Pending("none", <<>>)
    /\ config = DefaultMatchConfig
    /\ now = DefaultMatchConfig.RecentMatchCooldown - 1
    /\ pool \in BatchPools
    /\ current = NilEntity
    /\ currentUserID = ""
    /\ dret = NotCalled
    /\ mret = NotCalled
    /\ rooms \in UNION {[1..n -> BatchSeekers \cup {NilEntity}] : n \in 0..MaxRooms}
    /\ userIDs \in UNION {[1..n -> UserIDSet] : n \in 0..MaxRooms}
    /\ bpc = "idle"
    /\ bi = 0
    /\ results = EmptyMap
    /\ bcalls = <<>>

\* results[key] = value
MapPut(m, key, value) ==
    [k \in DOMAIN m \cup {key} |-> IF k = key THEN value ELSE m[k]]

\* results[userID] = matched, for results[room.ID] = matched
StoreMatch_Mut(m, room, userID, matched) == MapPut(m, userID, matched)

StoreMatch(m, room, userID, matched) == MapPut(m, room.ID, matched)

\* the length check, then make(map[string]*Entity, len(rooms))
BatchBegin ==
    /\ bpc = "idle"
    /\ IF Len(rooms) # Len(userIDs)
       THEN bpc' = "panic" /\ UNCHANGED <<bi, results>>
       ELSE bpc' = "loop" /\ bi' = 1 /\ results' = EmptyMap
    /\ UNCHANGED <<call, config, now, pool, current, currentUserID, dret, mret,
                   rooms, userIDs, bcalls>>

\* one iteration of "for i, room := range rooms"
BatchStep ==
    /\ bpc = "loop"
    /\ bi <= Len(rooms)
    /\ IF IsNil(rooms[bi]) \/ bi > Len(userIDs)
       THEN UNCHANGED <<results, bcalls>>
       ELSE \E matched \in matchEntity(rooms[bi], pool, userIDs[bi], config, now) :
               /\ results' = IF matched # 0
                             THEN StoreMatch(results, rooms[bi], userIDs[bi], matched)
                             ELSE results
               /\ bcalls' = Append(bcalls, [i |-> bi, currentTime |-> now,
                                            matched |-> matched])
    /\ bi' = bi + 1
    /\ UNCHANGED <<call, config, now, pool, current, currentUserID, dret, mret,
                   rooms, userIDs, bpc>>

BatchReturn ==
    /\ bpc = "loop"
    /\ bi > Len(rooms)
    /\ bpc' = "done"
    /\ UNCHANGED <<call, config, now, pool, current, currentUserID, dret, mret,
                   rooms, userIDs, bi, results, bcalls>>

\* a second passes
Tick ==
    /\ now < MaxTime
    /\ now' = now + 1
    /\ UNCHANGED <<call, config, pool, current, currentUserID, dret, mret,
                   rooms, userIDs, bpc, bi, results, bcalls>>

NextBatch ==
    \/ BatchBegin
    \/ BatchStep
    \/ BatchReturn
    \/ Tick

SpecBatch == InitBatch /\ [][NextBatch]_vars

----------------------------------------------------------------------------
(* What the claims speak of *)

AbsDiff(a, b) == IF a >= b THEN a - b ELSE b - a

Called(fn) == call.fn = fn /\ call.done

\* the candidate of a pair call neither blocks the seeker nor is in cooldown with it
PassesBlacklistAndCooldown ==
    LET c == call.args.candidate
        u == call.args.currentUserID
    IN  /\ u \notin c.Blacklist
        /\ ~(/\ u \in DOMAIN c.LastMatchedUsers
             /\ now - c.LastMatchedUsers[u] < call.args.config.RecentMatchCooldown)

TierGap ==
    AbsDiff(getMicSegment(call.args.current.MicCount),
            getMicSegment(call.args.candidate.MicCount))

Eligible(details) == {i \in 1..Len(details) : ~details[i].Rejected}

\* the candidates that are not rejected and whose total no eligible total exceeds
Tied(details) ==
    {i \in Eligible(details) :
        \A j \in Eligible(details) : details[j].Score <= details[i].Score}

DetailedSelections ==
    {r.selected : r \in matchEntityDetailed(current, pool, currentUserID, config, now)}

----------------------------------------------------------------------------
(* SpecMatch: C1, C2, C9, C10 *)

\* C1: a candidate returned by matchEntityDetailed is a pool member whose detail
\* of the same call is not rejected and has the maximum total over the
\* non-rejected details, and the candidates the call can return are exactly the
\* non-rejected candidates tied at that maximum.
C1_SelectedIsTiedMax ==
    (dret.called /\ dret.selected # 0) =>
        /\ dret.selected \in 1..Len(pool)
        /\ dret.details[dret.selected].Entity = pool[dret.selected]
        /\ dret.selected \in Tied(dret.details)
        /\ DetailedSelections = Tied(dret.details)

C1_Witness ==
    /\ dret.called
    /\ Len(pool) = 2
    /\ pool[1] # pool[2]
    /\ Tied(dret.details) = {1, 2}
    /\ dret.selected = 2

\* C2: matchEntityDetailed returns no match exactly when no candidate is
\* eligible; the detail list always has one entry per pool candidate, so an
\* all-rejected pool gives no match with every entry rejected, and an empty
\* pool gives no match with an empty detail list.
C2_NoMatchIffNoneEligible ==
    dret.called =>
        /\ Len(dret.details) = Len(pool)
        /\ (dret.selected = 0) <=> (Eligible(dret.details) = {})
        /\ (Eligible(dret.details) # {}) => (dret.selected \in 1..Len(pool))
        /\ (Len(pool) = 0) => (dret.selected = 0 /\ dret.details = <<>>)

C2_Witness ==
    /\ dret.called
    /\ Len(pool) = 2
    /\ dret.selected = 0
    /\ dret.details[1].Rejected /\ dret.details[2].Rejected
    /\ dret.details[1].RejectReason.kind # dret.details[2].RejectReason.kind

\* C9: in every MatchDetail of a matcher call, rejected implies total = -999,
\* and not rejected implies that the total is the sum of the five component
\* scores, that each component is non-negative and that the total is >= 0; so
\* rejected holds exactly when the total is -999.
C9_DetailTotals ==
    dret.called =>
        \A i \in 1..Len(dret.details) :
            LET d == dret.details[i]
            IN  /\ d.Rejected => d.Score = -999
                /\ ~d.Rejected =>
                      /\ d.Score = d.WaitScore + d.SegmentScore + d.AudienceScore
                                   + d.HistoryScore + d.ActivityScore
                      /\ d.WaitScore >= 0 /\ d.SegmentScore >= 0
                      /\ d.AudienceScore >= 0 /\ d.HistoryScore >= 0
                      /\ d.ActivityScore >= 0
                      /\ d.Score >= 0
                /\ d.Rejected <=> (d.Score = -999)

C9_Witness ==
    /\ dret.called
    /\ Len(pool) = 2
    /\ ~dret.details[1].Rejected
    /\ pool[1].WaitSeconds = 65535
    /\ dret.details[1].WaitScore = 13098
    /\ dret.details[2].Rejected
    /\ dret.details[2].RejectReason.kind = "segment-mismatch"

\* C10: at one current time matchEntity and matchEntityDetailed have the same
\* possible results: nil for the one exactly when nil for the other, and
\* otherwise the same set of non-rejected candidates tied at the maximum.
C10_SameSelections ==
    /\ matchEntity(current, pool, currentUserID, config, now) = DetailedSelections
    /\ mret.called => mret.selected \in DetailedSelections
    /\ (mret.called /\ dret.called) =>
          /\ (mret.selected = 0) <=> (dret.selected = 0)
          /\ (mret.selected # 0) => (mret.selected \in Tied(dret.details))

C10_Witness ==
    /\ mret.called /\ dret.called
    /\ mret.selected # 0 /\ dret.selected # 0
    /\ mret.selected # dret.selected

----------------------------------------------------------------------------
(* SpecScore: C3, C4, C5, C6 *)

\* C3: scoreMicSegment depends only on d = |seekerTier - candidateTier| and the
\* wait: 10 when d = 0; 3 when d = 1 and wait >= 60, whichever tier is larger;
\* 0 when d >= 2 and wait >= 60; the sentinel when d >= 1 and wait < 60.
C3_SegmentScoreByAbsGap ==
    Called("scoreMicSegment") =>
        LET d == AbsDiff(call.args.currentSeg, call.args.candidateSeg)
            w == call.args.waitTime
        IN  call.ret = IF d = 0 THEN 10
                       ELSE IF w < 60 THEN -999
                       ELSE IF d = 1 THEN 3
                       ELSE 0

\* C4: for a pair that passes the blacklist and cooldown checks, quickReject
\* rejects if and only if the candidate's wait is under 60 and the absolute
\* tier gap exceeds 1; a pair with an absolute gap of exactly 1 under short wait
\* is not rejected by quickReject, and is rejected by the segment scorer.
C4_GapCheckByAbsGap ==
    /\ (Called("quickReject") /\ PassesBlacklistAndCooldown) =>
          (call.ret.rejected <=>
              (call.args.candidate.WaitSeconds < 60 /\ TierGap > 1))
    /\ (/\ Called("scoreMatchDetailed") /\ PassesBlacklistAndCooldown
        /\ call.args.candidate.WaitSeconds < 60 /\ TierGap = 1) =>
          (call.ret.Rejected /\ call.ret.RejectReason.kind = "segment-mismatch")

\* C5: for a non-negative minWait, scoreWaitTime is 0 at or below minWait and
\* never decreases as the wait grows over the 16-bit range, in particular not
\* from 60 to 61 seconds.
C5_WaitScoreMonotone ==
    (Called("scoreWaitTime") /\ call.args.config.MinWaitTime >= 0) =>
        /\ (call.args.seconds <= call.args.config.MinWaitTime) => call.ret = 0
        /\ \A w2 \in WaitSamples :
              call.args.seconds <= w2 => call.ret <= scoreWaitTime(w2, call.args.config)

\* C6: for a candidate whose block-set does not hold the seeker's identifier,
\* quickReject gives the cooldown rejection if and only if the candidate has a
\* timestamp for the identifier and currentTime - lastTime is strictly less
\* than the cooldown; an elapsed time equal to the cooldown is not rejected.
C6_CooldownStrict ==
    (Called("quickReject")
        /\ call.args.currentUserID \notin call.args.candidate.Blacklist) =>
        LET c == call.args.candidate
            u == call.args.currentUserID
            cooled == call.ret.rejected /\ call.ret.reason.kind = "cooldown"
        IN  /\ cooled <=>
                  (/\ u \in DOMAIN c.LastMatchedUsers
                   /\ now - c.LastMatchedUsers[u] < call.args.config.RecentMatchCooldown)
            /\ (/\ u \in DOMAIN c.LastMatchedUsers
                /\ now - c.LastMatchedUsers[u] = call.args.config.RecentMatchCooldown)
                  => ~cooled
            /\ u \notin DOMAIN c.LastMatchedUsers => ~cooled

C6_Witness ==
    /\ Called("quickReject")
    /\ call.args.currentUserID \notin call.args.candidate.Blacklist
    /\ call.args.currentUserID \in DOMAIN call.args.candidate.LastMatchedUsers
    /\ now - call.args.candidate.LastMatchedUsers[call.args.currentUserID]
          = call.args.config.RecentMatchCooldown
    /\ ~call.ret.rejected

----------------------------------------------------------------------------
(* SpecBatch: C7, C8 *)

Present == {i \in 1..Len(rooms) : ~IsNil(rooms[i])}

\* the time.Now() that the matchEntity call of position i read
CallTime(i) ==
    (CHOOSE c \in {bcalls[n] : n \in 1..Len(bcalls)} : c.i = i).currentTime

\* the candidates Matcher can select for (rooms[i], pool, userIDs[i])
MatcherSelections(i) ==
    {r.selected :
        r \in matchEntityDetailed(rooms[i], pool, userIDs[i], config, CallTime(i))}

\* position i holds a seeker with at least one eligible candidate in the pool
HasEligible(i) ==
    \E j \in 1..Len(pool) :
        ~scoreMatchDetailed(rooms[i], pool[j], userIDs[i], config, CallTime(i),
                            getMicSegment(rooms[i].MicCount)).Rejected

Matched == {i \in Present : HasEligible(i)}

\* the last matched position whose seeker has the entity ID k
LastMatched(k) ==
    CHOOSE i \in Matched :
        /\ rooms[i].ID = k
        /\ \A j \in Matched : rooms[j].ID = k => j <= i

\* C7: a call with len(seekers) # len(seekerIdentifiers) fails before any
\* seeker is matched, the failure reaches the caller as an explicit
\* invalid-argument error result and not as an abort, and no mapping is returned.
C7_MismatchIsErrorResult ==
    (Len(rooms) # Len(userIDs) /\ bpc # "idle") =>
        /\ bpc = "error"
        /\ bcalls = <<>>
        /\ results = EmptyMap

\* C8 as claimed: after a batch on equal-length lists the mapping has an entry
\* keyed by seekerIdentifiers[i] exactly for the present seekers i with an
\* eligible candidate, its value is a candidate Matcher can select for that
\* seeker, and the number of entries is the number of present seekers matched.
C8_KeyedByIdentifier ==
    bpc = "done" =>
        /\ \A i \in Present :
              /\ (userIDs[i] \in DOMAIN results) <=> HasEligible(i)
              /\ HasEligible(i) => results[userIDs[i]] \in MatcherSelections(i)
        /\ Cardinality(DOMAIN results) = Cardinality(Matched)

\* C8 as amended: after a batch on equal-length lists the keys of the mapping
\* are the entity IDs (Entity.ID) of the present seekers that have an eligible
\* candidate, the value under a key is a candidate Matcher can select for the
\* last such seeker with that entity ID, and the number of entries is the
\* number of distinct entity IDs among the present seekers matched.
C8_KeyedByEntityID ==
    bpc = "done" =>
        /\ DOMAIN results = {rooms[i].ID : i \in Matched}
        /\ \A k \in DOMAIN results :
              /\ results[k] # 0
              /\ results[k] \in MatcherSelections(LastMatched(k))
        /\ Cardinality(DOMAIN results) = Cardinality({rooms[i].ID : i \in Matched})

C8_Witness ==
    /\ bpc = "done"
    /\ Len(rooms) = 2
    /\ Present = {1, 2}
    /\ Matched = {1, 2}
    /\ rooms[1].ID = rooms[2].ID
    /\ rooms[1] # rooms[2]
    /\ userIDs[1] # userIDs[2]
    /\ Cardinality(DOMAIN results) = 1
    /\ results[rooms[2].ID] \notin MatcherSelections(1)

====
